---- MODULE Spec2Model ----
(***************************************************************************)
(* Matrix fan-out, combination counting and validation of                  *)
(* pkg/apis/pipeline/v1/matrix_types.go.                                   *)
(*                                                                         *)
(* Representation.  A Go string that is a parameter NAME is a sequence of  *)
(* naturals (its bytes), so that the byte-wise comparison of sort.Slice is *)
(* computed, not assumed.  A Go string that is a parameter VALUE is a      *)
(* natural; 0 stands for the empty string (the zero value).  A Combination *)
(* (map[string]string) is a function from a set of names to values.  An    *)
(* aggregated *apis.FieldError is the sequence of the errors added with    *)
(* Also, in the order they were added; <<>> is the nil error.              *)
(***************************************************************************)
EXTENDS Integers, Sequences, FiniteSets, TLC

VARIABLES m, pc, count, maxCount, errs, fanOut, params

vars == <<m, pc, count, maxCount, errs, fanOut, params>>

\* ------------------------------------------------------------------ bounds
MaxParams == 3
MaxLen == 2
MaxConfig == 4
MaxIncludeSize == 3
MaxIncMatrix == 2
MaxValParams == 2
MaxPlain == 2
MaxCountParams == 8
IntWidth == 8

\* ------------------------------------------------------------------- names
\* "a", "ab", "b": a name, a name it is a proper prefix of, and a later name.
Names == {<<1>>, <<1, 2>>, <<2>>}

\* The orders in which a range over a map may visit the keys.
RangeOrders ==
    {ro \in [1..Cardinality(Names) -> Names] : \A n \in Names : \E i \in DOMAIN ro : ro[i] = n}

\* ------------------------------------------------------------- data model
ParamTypeString == "string"
ParamTypeArray == "array"
ParamTypeObject == "object"

ArrayParam(name, arr) ==
    [Name |-> name, Value |-> [Type |-> ParamTypeArray, StringVal |-> 0, ArrayVal |-> arr]]

StringParam(name, str) ==
    [Name |-> name, Value |-> [Type |-> ParamTypeString, StringVal |-> str, ArrayVal |-> <<>>]]

ObjectParam(name) ==
    [Name |-> name, Value |-> [Type |-> ParamTypeObject, StringVal |-> 0, ArrayVal |-> <<>>]]

Matrix(ps, inc) == [Params |-> ps, Include |-> inc]

IncludeParams(ps) == [Params |-> ps]

\* int arithmetic in IntWidth bits, two's complement.
WrapInt(x) ==
    ((x + 2 ^ (IntWidth - 1)) % (2 ^ IntWidth)) - 2 ^ (IntWidth - 1)

\* ------------------------------------------------------------ sorting keys
\* Go's < on strings: byte-wise, a proper prefix is smaller.
RECURSIVE stringLess(_, _)
stringLess(x, y) ==
    IF y = <<>> THEN FALSE
    ELSE IF x = <<>> THEN TRUE
    ELSE IF Head(x) # Head(y) THEN Head(x) < Head(y)
    ELSE stringLess(Tail(x), Tail(y))

\* The less function handed to sort.Slice: order[i] <= order[j].
less(x, y) == x = y \/ stringLess(x, y)

swap(s, i, j) == [s EXCEPT ![i] = s[j], ![j] = s[i]]

\* sort.Slice on a short slice is an insertion sort: element j sinks while
\* less(data[j], data[j-1]).
RECURSIVE sink(_, _)
sink(s, j) ==
    IF j > 1 /\ less(s[j], s[j - 1]) THEN sink(swap(s, j, j - 1), j - 1) ELSE s

RECURSIVE sortSliceFrom(_, _)
sortSliceFrom(s, i) ==
    IF i > Len(s) THEN s ELSE sortSliceFrom(sink(s, i), i + 1)

sortSlice(s) == sortSliceFrom(s, 2)

\* for key := range c, visiting the keys in the order ro.
rangeKeys(c, ro) == SelectSeq(ro, LAMBDA k : k \in DOMAIN c)

\* sortCombination with the sort.Slice call left out: the keys stay in the
\* order the range visited them.
sortCombinationUnsorted(c, ro) ==
    LET order == rangeKeys(c, ro)
    IN  [order |-> order,
         combination |-> [key \in {order[i] : i \in DOMAIN order} |-> c[key]]]

sortCombination(c, ro) ==
    LET order == sortSlice(rangeKeys(c, ro))
    IN  [order |-> order,
         combination |-> [key \in {order[i] : i \in DOMAIN order} |-> c[key]]]

\* ---------------------------------------------------------------- fan out
initializeCombinations(param) ==
    [i \in 1..Len(param.Value.ArrayVal) |-> (param.Name :> param.Value.ArrayVal[i])]

\* newCombination[param.Name] = value on a copy of combination.
setKey(combination, name, value) ==
    [key \in DOMAIN combination \cup {name} |->
        IF key = name THEN value ELSE combination[key]]

\* The inner loop of distribute: one new combination per existing one.
distributeValue(cs, name, value, ro) ==
    [c \in 1..Len(cs) |-> sortCombination(setKey(cs[c], name, value), ro).combination]

\* The outer loop of distribute, from the v-th value on.
RECURSIVE distributeFrom(_, _, _, _)
distributeFrom(cs, param, v, ro) ==
    IF v > Len(param.Value.ArrayVal) THEN <<>>
    ELSE distributeValue(cs, param.Name, param.Value.ArrayVal[v], ro)
            \o distributeFrom(cs, param, v + 1, ro)

\* distribute with its two loops exchanged: the existing combinations outside,
\* the values of the new Param inside.
RECURSIVE distributeCombinationsOuter(_, _, _, _)
distributeCombinationsOuter(cs, param, c, ro) ==
    IF c > Len(cs) THEN <<>>
    ELSE [v \in 1..Len(param.Value.ArrayVal) |->
             sortCombination(setKey(cs[c], param.Name, param.Value.ArrayVal[v]), ro).combination]
         \o distributeCombinationsOuter(cs, param, c + 1, ro)

distributeLoopsExchanged(cs, param, ro) == distributeCombinationsOuter(cs, param, 1, ro)

distribute(cs, param, ro) == distributeFrom(cs, param, 1, ro)

fanOutMatrixParams(cs, param, ro) ==
    IF Len(cs) = 0 THEN initializeCombinations(param) ELSE distribute(cs, param, ro)

toParams(cs, ro) ==
    [i \in 1..Len(cs) |->
        LET order == sortCombination(cs[i], ro).order
        IN  [j \in 1..Len(order) |-> StringParam(order[j], cs[i][order[j]])]]

\* The loop of FanOut over m.Params, from the i-th parameter on.
RECURSIVE fanOutFrom(_, _, _, _)
fanOutFrom(combinations, ps, i, ro) ==
    IF i > Len(ps) THEN combinations
    ELSE fanOutFrom(fanOutMatrixParams(combinations, ps[i], ro), ps, i + 1, ro)

FanOut(mx, ro) == toParams(fanOutFrom(<<>>, mx.Params, 1, ro), ro)

\* --------------------------------------------------------------- counting
HasInclude(mx) == Len(mx.Include) > 0

HasParams(mx) == Len(mx.Params) > 0

RECURSIVE countParamsFrom(_, _, _)
countParamsFrom(cnt, ps, i) ==
    IF i > Len(ps) THEN cnt
    ELSE countParamsFrom(WrapInt(cnt * Len(ps[i].Value.ArrayVal)), ps, i + 1)

countGeneratedCombinationsFromParams(mx) ==
    IF ~HasParams(mx) THEN 0 ELSE countParamsFrom(1, mx.Params, 1)

\* Params.extractParamMapArrVals: name -> ArrayVal, the last Param of a name wins.
RECURSIVE extractParamMapArrValsFrom(_, _, _)
extractParamMapArrValsFrom(paramsMap, ps, i) ==
    IF i > Len(ps) THEN paramsMap
    ELSE extractParamMapArrValsFrom(
            [n \in DOMAIN paramsMap \cup {ps[i].Name} |->
                IF n = ps[i].Name THEN ps[i].Value.ArrayVal ELSE paramsMap[n]],
            ps, i + 1)

extractParamMapArrVals(ps) == extractParamMapArrValsFrom(<<>>, ps, 1)

\* slices.Contains
Contains(s, str) == \E i \in DOMAIN s : s[i] = str

\* The loop below without its break.
RECURSIVE countIncludeParamsNoBreak(_, _, _, _)
countIncludeParamsNoBreak(cnt, matrixParamMap, ps, j) ==
    IF j > Len(ps) THEN cnt
    ELSE IF ps[j].Name \in DOMAIN matrixParamMap
            /\ ~Contains(matrixParamMap[ps[j].Name], ps[j].Value.StringVal)
         THEN countIncludeParamsNoBreak(WrapInt(cnt + 1), matrixParamMap, ps, j + 1)
         ELSE countIncludeParamsNoBreak(cnt, matrixParamMap, ps, j + 1)

\* The inner loop of countNewCombinationsFromInclude over one entry's Params,
\* from the j-th on; break leaves the loop with the count reached so far.
RECURSIVE countIncludeParamsFrom(_, _, _, _)
countIncludeParamsFrom(cnt, matrixParamMap, ps, j) ==
    IF j > Len(ps) THEN cnt
    ELSE IF ps[j].Name \in DOMAIN matrixParamMap
         THEN IF ~Contains(matrixParamMap[ps[j].Name], ps[j].Value.StringVal)
              THEN countIncludeParamsFrom(WrapInt(cnt + 1), matrixParamMap, ps, j + 1)
              ELSE cnt
         ELSE countIncludeParamsFrom(cnt, matrixParamMap, ps, j + 1)

\* The outer loop over m.Include, from the i-th entry on.
RECURSIVE countIncludeFrom(_, _, _, _)
countIncludeFrom(cnt, matrixParamMap, inc, i) ==
    IF i > Len(inc) THEN cnt
    ELSE countIncludeFrom(countIncludeParamsFrom(cnt, matrixParamMap, inc[i].Params, 1),
                          matrixParamMap, inc, i + 1)

countNewCombinationsFromInclude(mx) ==
    IF ~HasInclude(mx) THEN 0
    ELSE IF ~HasParams(mx) THEN Len(mx.Include)
    ELSE countIncludeFrom(0, extractParamMapArrVals(mx.Params), mx.Include, 1)

CountCombinations(mx) ==
    WrapInt(countGeneratedCombinationsFromParams(mx) + countNewCombinationsFromInclude(mx))

\* ------------------------------------------------------------- validation
\* One error of an aggregated *apis.FieldError.
FieldError(kind, field, name, index, type, value, lower, upper) ==
    [kind |-> kind, field |-> field, name |-> name, index |-> index,
     type |-> type, value |-> value, lower |-> lower, upper |-> upper]

ErrOutOfBoundsValue(value, lower, upper, field) ==
    FieldError("OutOfBounds", field, <<>>, 0, "", value, lower, upper)

ErrInvalidValue(type, field, name) ==
    FieldError("InvalidValue", field, name, 0, type, 0, 0, 0)

ErrMultipleOneOf(name) ==
    FieldError("MultipleOneOf", "matrix/params", name, 0, "", 0, 0, 0)

\* The duplicate-name error of the Param at position i (0-based) of the list
\* at `field`; `index` is the Include entry's position (0 for matrix.params).
ErrDuplicate(name, field, index, i) ==
    FieldError("Duplicate", field, name, index, "", i, 0, 0)

\* The bound check with >= for >.
validateCombinationsCountOffByOne(mx, max) ==
    LET matrixCombinationsCount == CountCombinations(mx)
    IN  IF matrixCombinationsCount >= max
        THEN <<ErrOutOfBoundsValue(matrixCombinationsCount, 0, max, "matrix")>>
        ELSE <<>>

validateCombinationsCount(mx, max) ==
    LET matrixCombinationsCount == CountCombinations(mx)
    IN  IF matrixCombinationsCount > max
        THEN <<ErrOutOfBoundsValue(matrixCombinationsCount, 0, max, "matrix")>>
        ELSE <<>>

\* Params.validateDuplicateParameters: one error per Param whose name an
\* earlier Param of the list already has.
RECURSIVE validateDuplicateParametersFrom(_, _, _, _)
validateDuplicateParametersFrom(ps, i, field, index) ==
    IF i > Len(ps) THEN <<>>
    ELSE (IF \E k \in 1..(i - 1) : ps[k].Name = ps[i].Name
          THEN <<ErrDuplicate(ps[i].Name, field, index, i - 1)>>
          ELSE <<>>)
         \o validateDuplicateParametersFrom(ps, i + 1, field, index)

validateDuplicateParameters(ps, field, index) ==
    validateDuplicateParametersFrom(ps, 1, field, index)

\* The type check below, returning at the first violation.
RECURSIVE validateTypesFailFast(_, _, _, _)
validateTypesFailFast(ps, j, type, field) ==
    IF j > Len(ps) THEN <<>>
    ELSE IF ps[j].Value.Type # type
         THEN <<ErrInvalidValue(ps[j].Value.Type, field, ps[j].Name)>>
         ELSE validateTypesFailFast(ps, j + 1, type, field)

\* The type check of the Params of one list, from the j-th on.
RECURSIVE validateTypesFrom(_, _, _, _)
validateTypesFrom(ps, j, type, field) ==
    IF j > Len(ps) THEN <<>>
    ELSE (IF ps[j].Value.Type # type
          THEN <<ErrInvalidValue(ps[j].Value.Type, field, ps[j].Name)>>
          ELSE <<>>)
         \o validateTypesFrom(ps, j + 1, type, field)

\* The loop of validateParams over m.Include, from the i-th entry on.
RECURSIVE validateIncludeFrom(_, _)
validateIncludeFrom(inc, i) ==
    IF i > Len(inc) THEN <<>>
    ELSE validateDuplicateParameters(inc[i].Params, "matrix.include.params", i - 1)
         \o validateTypesFrom(inc[i].Params, 1, ParamTypeString, "matrix.include.params")
         \o validateIncludeFrom(inc, i + 1)

validateParams(mx) ==
    (IF HasInclude(mx) THEN validateIncludeFrom(mx.Include, 1) ELSE <<>>)
    \o (IF HasParams(mx)
        THEN validateDuplicateParameters(mx.Params, "matrix.params", 0)
             \o validateTypesFrom(mx.Params, 1, ParamTypeArray, "matrix.params")
        ELSE <<>>)

RECURSIVE includeParamsFrom(_, _)
includeParamsFrom(inc, i) ==
    IF i > Len(inc) THEN <<>> ELSE inc[i].Params \o includeParamsFrom(inc, i + 1)

\* GetAllParams without the Params of the Include entries.
GetAllParamsWithoutInclude(mx) ==
    IF HasParams(mx) THEN mx.Params ELSE <<>>

GetAllParams(mx) ==
    (IF HasParams(mx) THEN mx.Params ELSE <<>>)
    \o (IF HasInclude(mx) THEN includeParamsFrom(mx.Include, 1) ELSE <<>>)

\* Params.ExtractNames: the set of the names.
ExtractNames(ps) == {ps[i].Name : i \in DOMAIN ps}

RECURSIVE validateOneOfFrom(_, _, _)
validateOneOfFrom(matrixParamNames, ps, i) ==
    IF i > Len(ps) THEN <<>>
    ELSE (IF ps[i].Name \in matrixParamNames
          THEN <<ErrMultipleOneOf(ps[i].Name)>>
          ELSE <<>>)
         \o validateOneOfFrom(matrixParamNames, ps, i + 1)

validateParameterInOneOfMatrixOrParams(mx, ps) ==
    validateOneOfFrom(ExtractNames(GetAllParams(mx)), ps, 1)

\* ----------------------------------------------------------------- inputs
SeqsUpTo(S, n) == UNION {[1..k -> S] : k \in 0..n}

\* The array <<1, ..., l>>.
ArrayOfLen(l) == [i \in 1..l |-> i]

\* Include lists of at most `size` entries and Params together.
RECURSIVE IncludeLists(_, _)
IncludeLists(P, size) ==
    {<<>>} \cup
    UNION {{<<IncludeParams(ps)>> \o rest :
                ps \in [1..j -> P], rest \in IncludeLists(P, size - j - 1)} :
           j \in 0..(size - 1)}

\* Matrices of array Params without Include: the input of the fan-out.
FanOutMatrices ==
    {Matrix(ps, <<>>) :
        ps \in SeqsUpTo({ArrayParam(n, ArrayOfLen(l)) : n \in Names, l \in 0..MaxLen},
                        MaxParams)}

\* Matrices with Include: string values 1 (in every non-empty array) and
\* MaxLen + 1 (in no array).
IncludeNames == {<<1>>, <<2>>}

IncludeMatrices ==
    {Matrix(ps, inc) :
        ps \in SeqsUpTo({ArrayParam(n, ArrayOfLen(l)) : n \in IncludeNames, l \in 0..MaxLen},
                        MaxIncMatrix),
        inc \in IncludeLists({StringParam(n, v) : n \in IncludeNames, v \in {1, MaxLen + 1}},
                             MaxIncludeSize)}

\* Matrices whose Params and Include Params have any of the three types.
TypedParams ==
    {ArrayParam(n, <<>>) : n \in IncludeNames}
        \cup {StringParam(n, 0) : n \in IncludeNames}
        \cup {ObjectParam(n) : n \in IncludeNames}

TypedMatrices ==
    {Matrix(ps, inc) :
        ps \in SeqsUpTo(TypedParams, MaxValParams),
        inc \in IncludeLists(TypedParams, MaxIncludeSize)}

\* Matrices and plain parameter lists that differ in their names only.
NamedMatrices ==
    {Matrix(ps, inc) :
        ps \in SeqsUpTo({ArrayParam(n, <<>>) : n \in Names}, MaxValParams),
        inc \in IncludeLists({StringParam(n, 0) : n \in Names}, MaxIncludeSize)}

PlainParams == SeqsUpTo({StringParam(n, 0) : n \in Names}, MaxPlain)

\* Matrices of many short arrays: the product of the lengths leaves the int range.
LongMatrices ==
    {Matrix(ps, <<>>) :
        ps \in SeqsUpTo({ArrayParam(<<1>>, ArrayOfLen(l)) : l \in 0..MaxLen}, MaxCountParams)}

\* ---------------------------------------------------------- state machine
InitWith(matrices) ==
    /\ m \in matrices
    /\ pc = "parsed"
    /\ count = 0
    /\ maxCount = 0
    /\ errs = <<>>
    /\ fanOut = <<>>
    /\ params = <<>>

RunCountCombinations ==
    /\ pc = "parsed"
    /\ count' = CountCombinations(m)
    /\ pc' = "counted"
    /\ UNCHANGED <<m, maxCount, errs, fanOut, params>>

\* The configured maximum comes with the call's context.
RunValidateCombinationsCount ==
    /\ pc = "counted"
    /\ \E max \in 0..MaxConfig :
          /\ maxCount' = max
          /\ errs' = validateCombinationsCount(m, max)
    /\ pc' = "validated"
    /\ UNCHANGED <<m, count, fanOut, params>>

\* The order in which the map's keys are visited is the runtime's choice.
RunFanOut ==
    /\ pc = "validated"
    /\ \E ro \in RangeOrders : fanOut' = FanOut(m, ro)
    /\ pc' = "fannedOut"
    /\ UNCHANGED <<m, count, maxCount, errs, params>>

RunValidateParams ==
    /\ pc = "parsed"
    /\ errs' = validateParams(m)
    /\ pc' = "paramsValidated"
    /\ UNCHANGED <<m, count, maxCount, fanOut, params>>

RunValidateParameterInOneOfMatrixOrParams ==
    /\ pc = "parsed"
    /\ \E ps \in PlainParams :
          /\ params' = ps
          /\ errs' = validateParameterInOneOfMatrixOrParams(m, ps)
    /\ pc' = "oneOfValidated"
    /\ UNCHANGED <<m, count, maxCount, fanOut>>

\* Count, bound check, fan-out of a matrix without Include.
Init == InitWith(FanOutMatrices)

Next == RunCountCombinations \/ RunValidateCombinationsCount \/ RunFanOut

Spec == Init /\ [][Next]_vars

\* Count and bound check of a matrix with Include.
InitInclude == InitWith(IncludeMatrices)

NextInclude == RunCountCombinations \/ RunValidateCombinationsCount

SpecInclude == InitInclude /\ [][NextInclude]_vars

\* Type and uniqueness check.
InitTyped == InitWith(TypedMatrices)

NextTyped == RunValidateParams

SpecTyped == InitTyped /\ [][NextTyped]_vars

\* Mutual-exclusion check.
InitOneOf == InitWith(NamedMatrices)

NextOneOf == RunValidateParameterInOneOfMatrixOrParams

SpecOneOf == InitOneOf /\ [][NextOneOf]_vars

\* Count and bound check of a matrix of many Params.
InitLong == InitWith(LongMatrices)

NextLong == RunCountCombinations \/ RunValidateCombinationsCount

SpecLong == InitLong /\ [][NextLong]_vars

\* ------------------------------------------------------------- properties
\* The mathematical product of the lengths of the first j arrays of ps.
RECURSIVE ProductOfLens(_, _)
ProductOfLens(ps, j) ==
    IF j = 0 THEN 1 ELSE ProductOfLens(ps, j - 1) * Len(ps[j].Value.ArrayVal)

DistinctNames(ps) == \A i, j \in DOMAIN ps : ps[i].Name = ps[j].Name => i = j

RepeatsName(ps) == ~DistinctNames(ps)

HasEmptyArray(ps) == \E i \in DOMAIN ps : Len(ps[i].Value.ArrayVal) = 0

\* C1: without Include, the number of parameter lists FanOut returns is the
\* product of the array lengths of Matrix.Params (n >= 1, lengths from 0 on)
\* and is the value CountCombinations returns.
C1_FanOutLenIsProductAndCount ==
    (pc = "fannedOut" /\ Len(m.Params) >= 1 /\ Len(m.Include) = 0)
        => /\ Len(fanOut) = ProductOfLens(m.Params, Len(m.Params))
           /\ Len(fanOut) = count

\* C2: a zero-length array at any position of Matrix.Params makes FanOut
\* return the empty sequence, whatever the other lengths are.
C2_EmptyArrayGivesEmptyFanOut ==
    (pc = "fannedOut" /\ HasEmptyArray(m.Params)) => fanOut = <<>>

\* C3: when validateCombinationsCount returned no error under the maximum
\* maxCount (no Include), FanOut returns at most maxCount parameter lists.
C3_AcceptedFanOutWithinMax ==
    (pc = "fannedOut" /\ Len(m.Include) = 0 /\ errs = <<>>) => Len(fanOut) <= maxCount

\* The inputs the ordering is stated for, fanned out.
C4_Applies ==
    /\ pc = "fannedOut"
    /\ Len(m.Params) >= 1
    /\ DistinctNames(m.Params)
    /\ ~HasEmptyArray(m.Params)

\* C4: for pairwise distinct names and non-empty arrays, the combination at
\* 0-based position i gives the j-th declared Param the element at index
\* (i div (l1*...*l(j-1))) mod lj of its array: the first-declared Param
\* varies fastest, the last-declared slowest.
C4_FirstDeclaredVariesFastest ==
    C4_Applies =>
        /\ Len(fanOut) = ProductOfLens(m.Params, Len(m.Params))
        /\ \A i \in DOMAIN fanOut :
              /\ Len(fanOut[i]) = Len(m.Params)
              /\ \A j \in DOMAIN m.Params :
                    \E k \in DOMAIN fanOut[i] :
                        /\ fanOut[i][k].Name = m.Params[j].Name
                        /\ fanOut[i][k].Value.StringVal =
                              m.Params[j].Value.ArrayVal[
                                  (((i - 1) \div ProductOfLens(m.Params, j - 1))
                                      % Len(m.Params[j].Value.ArrayVal)) + 1]

C4_Witness ==
    /\ C4_Applies
    /\ Len(m.Params) = 3
    /\ \A j \in DOMAIN m.Params : Len(m.Params[j].Value.ArrayVal) = 2
    /\ Len(fanOut) = 8

\* C5: validateCombinationsCount returns an out-of-bounds error if and only
\* if the count CountCombinations returns is strictly greater than the
\* configured maximum; the error carries that count and the range [0, max].
C5_OutOfBoundsIffCountAboveMax ==
    pc = "validated" =>
        /\ (errs # <<>>) <=> (count > maxCount)
        /\ errs # <<>> =>
              /\ Len(errs) = 1
              /\ errs[1].kind = "OutOfBounds"
              /\ errs[1].value = count
              /\ errs[1].lower = 0
              /\ errs[1].upper = maxCount

C5_Witness ==
    /\ pc = "validated"
    /\ HasInclude(m)
    /\ HasParams(m)
    /\ count = maxCount + 1
    /\ errs # <<>>

\* The positions of the errors of one kind at one field, and the violations
\* of the matrix by name.
ErrorsOf(kind, field) ==
    {i \in DOMAIN errs : errs[i].kind = kind /\ errs[i].field = field}

IncludeTypeViolations(n) ==
    {<<e, j>> \in (DOMAIN m.Include) \X (1..MaxIncludeSize) :
        /\ j \in DOMAIN m.Include[e].Params
        /\ m.Include[e].Params[j].Name = n
        /\ m.Include[e].Params[j].Value.Type # ParamTypeString}

MatrixTypeViolations(n) ==
    {j \in DOMAIN m.Params :
        m.Params[j].Name = n /\ m.Params[j].Value.Type # ParamTypeArray}

\* C6: validateParams collects every violation: one type error for every
\* Param of Matrix.Params that is not an array and for every Param of every
\* Include entry that is not a string, beside the duplicate-name errors of
\* each list; it returns no error exactly when there is no violation.
C6_ValidateParamsCollectsAll ==
    pc = "paramsValidated" =>
        /\ \A n \in Names :
              /\ Cardinality({i \in ErrorsOf("InvalidValue", "matrix.params") :
                                  errs[i].name = n})
                    = Cardinality(MatrixTypeViolations(n))
              /\ Cardinality({i \in ErrorsOf("InvalidValue", "matrix.include.params") :
                                  errs[i].name = n})
                    = Cardinality(IncludeTypeViolations(n))
        /\ (ErrorsOf("Duplicate", "matrix.params") # {}) <=> RepeatsName(m.Params)
        /\ \A e \in DOMAIN m.Include :
              (\E i \in ErrorsOf("Duplicate", "matrix.include.params") : errs[i].index = e - 1)
                  <=> RepeatsName(m.Include[e].Params)
        /\ (errs = <<>>) <=>
              /\ \A n \in Names : MatrixTypeViolations(n) = {} /\ IncludeTypeViolations(n) = {}
              /\ ~RepeatsName(m.Params)
              /\ \A e \in DOMAIN m.Include : ~RepeatsName(m.Include[e].Params)

C6_Witness ==
    /\ pc = "paramsValidated"
    /\ Cardinality(ErrorsOf("InvalidValue", "matrix.params")) >= 2
    /\ Cardinality(ErrorsOf("InvalidValue", "matrix.include.params")) >= 2
    /\ ErrorsOf("Duplicate", "matrix.params") # {}
    /\ ErrorsOf("Duplicate", "matrix.include.params") # {}

\* The names of the Params of the matrix and of its Include entries.
MatrixNames ==
    {m.Params[i].Name : i \in DOMAIN m.Params}
        \cup UNION {{m.Include[e].Params[j].Name : j \in DOMAIN m.Include[e].Params} :
                    e \in DOMAIN m.Include}

\* C7: validateParameterInOneOfMatrixOrParams reports a conflict for a plain
\* parameter if and only if its name is the name of a Param of Matrix.Params
\* or of an Include entry, one conflict per such plain parameter, and no
\* error when the name sets are disjoint.
C7_ConflictIffNameInMatrix ==
    pc = "oneOfValidated" =>
        /\ \A i \in DOMAIN errs : errs[i].kind = "MultipleOneOf"
        /\ \A n \in Names :
              Cardinality({i \in DOMAIN errs : errs[i].name = n})
                  = IF n \in MatrixNames
                    THEN Cardinality({i \in DOMAIN params : params[i].Name = n})
                    ELSE 0
        /\ (errs = <<>>) <=> (\A i \in DOMAIN params : params[i].Name \notin MatrixNames)

C7_Witness ==
    /\ pc = "oneOfValidated"
    /\ Len(params) = 2
    /\ params[1].Name = params[2].Name
    /\ \A i \in DOMAIN m.Params : m.Params[i].Name # params[1].Name
    /\ Len(m.Params) >= 1
    /\ Len(errs) = 2

\* C8: in every parameter list FanOut returns, the names are in strictly
\* ascending lexicographic order, none repeated, whatever the declaration
\* order of Matrix.Params and also when Matrix.Params repeats a name.
C8_NamesStrictlyAscending ==
    pc = "fannedOut" =>
        \A i \in DOMAIN fanOut :
            \A j, k \in DOMAIN fanOut[i] :
                j < k => stringLess(fanOut[i][j].Name, fanOut[i][k].Name)

C8_Witness ==
    /\ pc = "fannedOut"
    /\ Len(m.Params) = 3
    /\ m.Params[1].Name = <<2>>
    /\ m.Params[2].Name = <<1, 2>>
    /\ m.Params[3].Name = <<2>>
    /\ Len(fanOut) >= 2
    /\ Len(fanOut[1]) = 2

\* The array the count looks a name up in: that of the last Param of the name.
ArrayOfName(n) ==
    LET k == CHOOSE k \in DOMAIN m.Params :
                /\ m.Params[k].Name = n
                /\ \A k2 \in DOMAIN m.Params : k2 > k => m.Params[k2].Name # n
    IN  m.Params[k].Value.ArrayVal

IsMatrixName(n) == \E k \in DOMAIN m.Params : m.Params[k].Name = n

ValuePresent(p) ==
    /\ IsMatrixName(p.Name)
    /\ \E x \in DOMAIN ArrayOfName(p.Name) : ArrayOfName(p.Name)[x] = p.Value.StringVal

ValueAbsent(p) ==
    /\ IsMatrixName(p.Name)
    /\ \A x \in DOMAIN ArrayOfName(p.Name) : ArrayOfName(p.Name)[x] # p.Value.StringVal

HasPresent(e) == \E j \in DOMAIN m.Include[e].Params : ValuePresent(m.Include[e].Params[j])

FirstPresent(e) ==
    CHOOSE j \in DOMAIN m.Include[e].Params :
        /\ ValuePresent(m.Include[e].Params[j])
        /\ \A j2 \in 1..(j - 1) : ~ValuePresent(m.Include[e].Params[j2])

AbsentBeforeFirstPresent(e) ==
    {j \in 1..(FirstPresent(e) - 1) : ValueAbsent(m.Include[e].Params[j])}

WithoutEntry(e) ==
    Matrix(m.Params, SubSeq(m.Include, 1, e - 1) \o SubSeq(m.Include, e + 1, Len(m.Include)))

\* What entry e adds to the count of the matrix.
Contribution(e) == count - CountCombinations(WithoutEntry(e))

\* C9: with non-empty Matrix.Params, an Include entry holding a param whose
\* name is a Matrix.Params name and whose value is among that Param's array
\* values contributes 0 to the count, whatever precedes that param.
C9_PresentValueContributesZero ==
    (pc = "counted" /\ HasParams(m)) =>
        \A e \in DOMAIN m.Include : HasPresent(e) => Contribution(e) = 0

\* C9 as amended: the scan of the entry stops at the first such param, which
\* adds nothing, and neither do the params after it; the entry contributes 1
\* for every param before it whose name is a Matrix.Params name and whose
\* value is absent from that Param's array.
C9_PresentValueStopsScan ==
    (pc = "counted" /\ HasParams(m)) =>
        \A e \in DOMAIN m.Include :
            HasPresent(e) => Contribution(e) = Cardinality(AbsentBeforeFirstPresent(e))

C9_Witness ==
    /\ pc = "counted"
    /\ HasParams(m)
    /\ \E e \in DOMAIN m.Include :
          /\ HasPresent(e)
          /\ FirstPresent(e) = 2
          /\ Len(m.Include[e].Params) = 2
          /\ Contribution(e) = 1

\* C10: for non-empty Matrix.Params the Params contribution CountCombinations
\* computes in a machine integer is the mathematical product of the array
\* lengths: it never wraps, is never negative, never below the true product.
C10_CountIsTrueProduct ==
    (pc = "counted" /\ HasParams(m) /\ ~HasInclude(m)) =>
        /\ count = ProductOfLens(m.Params, Len(m.Params))
        /\ count >= 0
====
